---- MODULE Spec2Model ----
(***************************************************************************)
(* The IMUNES helper interpreter (scripts/imunes/imunes_helper.py): the    *)
(* read-eval loop Simulator._start, the command catalog and the            *)
(* validation framework, as a state machine.                               *)
(*                                                                         *)
(* A token is a sequence of one-character strings, a parsed line a         *)
(* sequence of tokens (what shlex.split returns).  The context entry       *)
(* 'cmd' is None when a line has no parameters: None is written <<>>,      *)
(* since a cmd that is not None is never empty.                            *)
(***************************************************************************)
EXTENDS Integers, Sequences, FiniteSets, TLC

\* Bounds of the model.
MaxLines == 5      \* lines the files hold, over all nesting levels
LiveLines == 2     \* the same, where behaviours are checked under fairness
MaxDepth == 2      \* nested activations of _start (main script + sourced)
MaxPieces == 2     \* pieces a token is made of, where substitution is checked
MaxPattern == 3    \* characters of a node pattern, where selection is checked

\* SimulatorState
idle == 1
started == 2
stopped == 3

(***************************************************************************)
(* Tokens.                                                                 *)
(***************************************************************************)
t_start == <<"s","t","a","r","t">>
t_stop == <<"s","t","o","p">>
t_sleep == <<"s","l","e","e","p">>
t_help == <<"h","e","l","p">>
t_env == <<"e","n","v">>
t_local == <<"l","o","c","a","l">>
t_export == <<"e","x","p","o","r","t">>
t_experiment == <<"e","x","p","e","r","i","m","e","n","t">>
t_print == <<"p","r","i","n","t">>
t_exit == <<"e","x","i","t">>
t_node == <<"n","o","d","e">>
t_node_d == <<"n","o","d","e","-","d">>
t_copy == <<"c","o","p","y">>
t_capture == <<"c","a","p","t","u","r","e">>
t_dump == <<"d","u","m","p">>
t_ip_addr == <<"i","p","-","a","d","d","r">>
t_source == <<"s","o","u","r","c","e">>

\* Simulator.experiment, the class attribute
SIM == <<"S","I","M">>

Digits == {"0","1","2","3","4","5","6","7","8","9"}

(***************************************************************************)
(* String helpers used by the code: str.startswith, str.replace,           *)
(* str.split(','), and re.match of "^.*\.imn$".                            *)
(***************************************************************************)
StartsWith(s, p) ==
    /\ Len(p) <= Len(s)
    /\ \A i \in 1..Len(p) : s[i] = p[i]

EndsWith(s, p) ==
    /\ Len(p) <= Len(s)
    /\ \A i \in 1..Len(p) : s[Len(s) - Len(p) + i] = p[i]

Drop(s, n) == IF n >= Len(s) THEN <<>> ELSE SubSeq(s, n + 1, Len(s))

\* True when `old` occurs in s at index i.
OccursAt(s, old, i) ==
    /\ i + Len(old) - 1 <= Len(s)
    /\ \A k \in 1..Len(old) : s[i + k - 1] = old[k]

\* s.replace(old, new) for a non-empty old: every non-overlapping
\* occurrence, left to right.
RECURSIVE ReplaceFrom(_, _, _, _)
ReplaceFrom(s, old, new, i) ==
    IF i > Len(s) THEN <<>>
    ELSE IF OccursAt(s, old, i)
         THEN new \o ReplaceFrom(s, old, new, i + Len(old))
         ELSE <<s[i]>> \o ReplaceFrom(s, old, new, i + 1)

Replace(s, old, new) == ReplaceFrom(s, old, new, 1)

\* s.split(','): the pieces between commas, empty pieces kept.
RECURSIVE SplitFrom(_, _, _)
SplitFrom(s, i, piece) ==
    IF i > Len(s) THEN <<piece>>
    ELSE IF s[i] = ","
         THEN <<piece>> \o SplitFrom(s, i + 1, <<>>)
         ELSE SplitFrom(s, i + 1, Append(piece, s[i]))

Split(s) == SplitFrom(s, 1, <<>>)

\* int(value) succeeds: an optional sign and at least one digit.
IntText(s) ==
    LET body == IF Len(s) > 0 /\ s[1] \in {"-", "+"} THEN Drop(s, 1) ELSE s
    IN  /\ Len(body) > 0
        /\ \A i \in 1..Len(body) : body[i] \in Digits

IntNegative(s) == Len(s) > 0 /\ s[1] = "-" /\ \E i \in 2..Len(s) : s[i] # "0"

SeqToSet(s) == { s[i] : i \in 1..Len(s) }

(***************************************************************************)
(* Variable substitution: Simulator._extract_var_names, _replace_vars,     *)
(* _set_cmd_vars.  `variables` is a function from names to values.         *)
(***************************************************************************)
\* _var_regex.findall(line), _var_regex being "\%\{[^\}]*\}": the leftmost,
\* non-overlapping pieces "%{" ... "}" with no "}" in between.
RECURSIVE FindAllFrom(_, _)
FindAllFrom(s, i) ==
    IF i > Len(s) THEN <<>>
    ELSE IF OccursAt(s, <<"%", "{">>, i) /\ \E j \in (i + 2)..Len(s) : s[j] = "}"
         THEN LET j == CHOOSE j \in (i + 2)..Len(s) :
                           /\ s[j] = "}"
                           /\ \A k \in (i + 2)..(j - 1) : s[k] # "}"
              IN  <<SubSeq(s, i, j)>> \o FindAllFrom(s, j + 1)
         ELSE FindAllFrom(s, i + 1)

_decorate_var(var) == <<"%", "{">> \o var \o <<"}">>

_extract_var_names(line) ==
    LET found == FindAllFrom(line, 1)
    IN  [k \in 1..Len(found) |->
            Replace(Replace(found[k], <<"%", "{">>, <<>>), <<"}">>, <<>>)]

RECURSIVE _replace_vars(_, _, _)
_replace_vars(line, extracted, env_variables) ==
    IF extracted = <<>> THEN line
    ELSE LET e == Head(extracted)
             next == IF e \in DOMAIN env_variables
                     THEN Replace(line, _decorate_var(e), env_variables[e])
                     ELSE line
         IN  _replace_vars(next, Tail(extracted), env_variables)

\* None (<<>>) when the line has no parameters.
_set_cmd_vars(vars, data) ==
    [i \in 1..Len(data) |->
        _replace_vars(data[i], _extract_var_names(data[i]), vars)]

(***************************************************************************)
(* NodeNameValidatorMixin and the selection every node command makes:      *)
(* [name for name in nodes if _any or self._valid_node(name, _nodes, _neg)]*)
(***************************************************************************)
_extract_nodes(node_str) ==
    IF node_str = <<"*">>
    THEN [any |-> TRUE, neg |-> FALSE, names |-> <<>>]
    ELSE IF StartsWith(node_str, <<"~">>)
         THEN [any |-> FALSE, neg |-> TRUE, names |-> Split(Drop(node_str, 1))]
         ELSE [any |-> FALSE, neg |-> FALSE, names |-> Split(node_str)]

\* A match on the whole name instead of a prefix.
_valid_node_exact(node, names, negated) ==
    LET result == \E k \in 1..Len(names) : node = names[k]
    IN  IF negated THEN ~result ELSE result

_valid_node(node, names, negated) ==
    LET result == \E k \in 1..Len(names) : StartsWith(node, names[k])
    IN  IF negated THEN ~result ELSE result

SelectNodes(known, node_str) ==
    LET e == _extract_nodes(node_str)
        Keep(name) == e.any \/ _valid_node(name, e.names, e.neg)
    IN  SelectSeq(known, Keep)

(***************************************************************************)
(* The validation framework.                                               *)
(***************************************************************************)
\* StringContextEntry(regex).validate on a token: tokens are strings; the
\* only regex any command gives is "^.*\.imn$" (start).
StringValidate(regex, value) ==
    IF regex = "imn" THEN EndsWith(value, <<".", "i", "m", "n">>) ELSE TRUE

\* IntegerContextEntry.__init__ stores its pattern as a plain string, not a
\* compiled one, so ContextEntryType.validate's self._regex.match(value)
\* raises AttributeError whenever it is reached.
IntegerRegexCompiled == FALSE

\* IntegerContextEntry(constrained=None).validate: no exception raised.
IntegerValidate(value) ==
    /\ IntText(value)
    /\ IntegerRegexCompiled

EntryValidate(kind, value) ==
    CASE kind = "String" -> StringValidate("", value)
      [] kind = "StringImn" -> StringValidate("imn", value)
      [] kind = "Integer" -> IntegerValidate(value)

\* A validator that asks only for a context that is not empty.
ContextValidateLax(required, keys) ==
    IF keys = {} THEN "ValueError" ELSE "ok"

\* ContextValidator.validate: "ok", or the exception it raises.
ContextValidate(required, keys) ==
    IF keys = {} THEN "ValueError"
    ELSE IF required \ keys # {} THEN "ValueError"
    ELSE "ok"

NoConstraints == [given |-> FALSE, min_len |-> 0, kinds |-> <<>>]
ParamConstraints(n, k) == [given |-> TRUE, min_len |-> n, kinds |-> k]

\* ParamValidator.validate: "ok", or the exception it raises.  kinds[k] is
\* the validator of position k - 1.
ParamValidate(constraints, c) ==
    IF ~constraints.given THEN "ok"
    ELSE IF c = <<>> THEN "TypeError"
    ELSE IF Len(c) < constraints.min_len THEN "CommandException"
    ELSE IF \E k \in 1..Len(constraints.kinds) :
                \/ k - 1 >= Len(c)
                \/ /\ k <= Len(c)
                   /\ ~EntryValidate(constraints.kinds[k], c[k])
         THEN "CommandException"
    ELSE "ok"

\* The context constraints each command passes to Command.__init__.
ContextRequired(name) ==
    IF name \in {t_node, t_node_d, t_copy} THEN {"nodes", "state"}
    ELSE IF name = t_start THEN {"state"}
    ELSE {}

\* The parameter constraints each command passes to Command.__init__.
CmdRequired(name) ==
    CASE name \in {t_node, t_node_d, t_ip_addr} ->
            ParamConstraints(2, <<"String", "String">>)
      [] name = t_copy -> ParamConstraints(3, <<"String", "String", "String">>)
      [] name = t_start -> ParamConstraints(1, <<"StringImn">>)
      [] name = t_sleep -> ParamConstraints(1, <<"Integer">>)
      [] name \in {t_dump, t_env, t_local} -> ParamConstraints(1, <<"String">>)
      [] name = t_export -> ParamConstraints(2, <<"String">>)
      [] OTHER -> NoConstraints

\* The keys of the context dictionary while a command executes.
ContextKeys ==
    {"experiment", "nodes", "commands", "environment", "state",
     "variables", "capture", "capture_data", "cmd"}

\* Command.execute: the context validator, then the parameter validator.
Validate(name, c) ==
    LET cv == ContextValidate(ContextRequired(name), ContextKeys)
    IN  IF cv # "ok" THEN cv ELSE ParamValidate(CmdRequired(name), c)

\* Simulator.commands, as Simulator.__init__ fills it.
Commands ==
    {t_start, t_stop, t_sleep, t_help, t_env, t_local, t_export,
     t_experiment, t_print, t_exit, t_node, t_node_d, t_copy, t_capture,
     t_dump, t_ip_addr}

(***************************************************************************)
(* The inputs of the model: script lines as shlex.split parses them, the   *)
(* node lists `himage -l` can report, the outputs of external commands.    *)
(***************************************************************************)
tk_imn == <<"a", ".", "i", "m", "n">>
tk_star == <<"*">>
tk_a == <<"a">>
tk_z == <<"z">>
tk_X == <<"X">>
tk_V == <<"V">>
tk_f == <<"f">>
tk_1 == <<"1">>
tk_ref == <<"%", "{", "V", "}">>
node_a1 == <<"a", "1">>
node_b1 == <<"b", "1">>

NodeLists == {<<>>, <<node_a1>>, <<node_a1, node_b1>>}

\* What subprocess.check_output can return for export.
Outputs == {<<>>, <<"X", "\n">>, <<"S", "I", "M">>}

\* What NodeIpAddr.get_node_address can return (None is <<>>).
Addresses == {<<>>, <<"1">>}

SourceLines == {<<t_source, tk_f>>}

PlainLines ==
    {<<>>, <<<<"#">>>>, <<<<"f", "o", "o">>>>, <<t_source>>,
     <<t_start, tk_imn>>, <<t_start, tk_a>>, <<t_start>>,
     <<t_stop>>, <<t_stop, SIM>>, <<t_stop, tk_X>>, <<t_stop, tk_ref>>,
     <<t_sleep, tk_1>>, <<t_sleep, tk_a>>, <<t_sleep>>,
     <<t_exit>>, <<t_exit, tk_X>>,
     <<t_experiment>>, <<t_experiment, tk_X>>,
     <<t_node, tk_star, tk_f>>, <<t_node, tk_z, tk_f>>, <<t_node, tk_a>>,
     <<t_node_d, <<"~", "a">>, tk_f>>,
     <<t_copy, tk_star, tk_f, tk_f>>, <<t_copy, tk_a>>,
     <<t_ip_addr, tk_a, tk_V>>, <<t_ip_addr, tk_z, tk_V>>,
     <<t_capture>>, <<t_dump, tk_f>>, <<t_dump>>,
     <<t_export, tk_V, tk_f>>, <<t_export, tk_V>>,
     <<t_print, tk_ref>>, <<t_help>>, <<t_env, tk_V>>,
     <<t_local, tk_f>>, <<t_local>>}

(***************************************************************************)
(* State.                                                                  *)
(***************************************************************************)
VARIABLES
    frames,        \* the activations of _start, outermost first:
                   \* [pos: lines read from its file, eof: readline gave '']
    pc,            \* where the innermost activation is: "read", "dispatch",
                   \* "cleanup"; "done" when start() is over
    cur,           \* `parsed`, the tokens of the line just read
    left,          \* lines the files still hold
    state,         \* context['state']
    experiment,    \* context['experiment']
    nodes,         \* context['nodes']
    cmd,           \* context['cmd'] (None is <<>>)
    variables,     \* context['variables']
    capture,       \* context['capture']
    capture_data,  \* context['capture_data']
    last,          \* the last command executed: its name, whether its
                   \* execute ran the validators, what it raised
    effects,       \* the external calls, sleeps and writes of the last step
    ended,         \* how the last activation of _start to end ended, and
                   \* whether _cleanup was called
    pool,          \* the dispatch inside NodeCommand.execute's with block:
                   \* the nodes selected, each future's status, the order
                   \* as_completed yields the futures in, how many of them
                   \* the for loop took, whether it raised
    succeeded,     \* what the per-node invocations that succeeded since the
                   \* last capture command returned (stripped as line 384
                   \* strips it), in completion order
    probe          \* a validator applied on its own: its arguments and
                   \* what it gave

ctx == <<state, experiment, nodes, variables, capture, capture_data>>
vars == <<frames, pc, cur, left, state, experiment, nodes, cmd, variables,
          capture, capture_data, last, effects, ended, pool, succeeded, probe>>

\* What the loop and the commands other than node and node-d leave alone.
aside == <<pool, probe>>

NoVariables == [k \in {} |-> <<>>]
NoLast == [name |-> <<>>, validated |-> FALSE, exc |-> "none"]
NoPool == [name |-> <<>>, sel |-> <<>>, status |-> <<>>, done |-> <<>>,
           seen |-> 0, raised |-> FALSE]
NoProbe == [required |-> {}, context |-> {}, result |-> "none"]

\* Simulator.start: the context and the first activation of _start, for
\* files of n lines in all.
StartOf(n) ==
    /\ frames = <<[pos |-> 0, eof |-> FALSE]>>
    /\ pc = "read"
    /\ cur = <<>>
    /\ left = n
    /\ state = idle
    /\ experiment = SIM
    /\ nodes = <<>>
    /\ cmd = <<>>
    /\ variables = NoVariables
    /\ capture = FALSE
    /\ capture_data = <<>>
    /\ last = NoLast
    /\ effects = {}
    /\ ended = [how |-> "none", cleanup |-> FALSE]
    /\ pool = NoPool
    /\ succeeded = <<>>
    /\ probe = NoProbe

Init == StartOf(MaxLines)

InitLive == StartOf(LiveLines)

Depth == Len(frames)
Top == frames[Depth]
SetTop(f) == [frames EXCEPT ![Depth] = f]
Pop == SubSeq(frames, 1, Depth - 1)

\* The exceptions the loop lets the iteration survive, and those that clear
\* `working`.
Fatal(exc) == exc \notin {"none", "CommandException", "ExitException"}
StopsLoop(exc) == exc = "ExitException" \/ Fatal(exc)

(***************************************************************************)
(* Reading and tokenizing (lines 879-886).                                 *)
(***************************************************************************)
\* An exception leaves _start from inside the while loop: _cleanup is not
\* called.  A sourced activation's caller catches it (line 896) and goes
\* on; out of the first activation it ends start().
RaiseOut ==
    /\ ended' = [how |-> "raised", cleanup |-> FALSE]
    /\ frames' = Pop
    /\ pc' = IF Depth > 1 THEN "read" ELSE "done"
    /\ cur' = <<>>
    /\ UNCHANGED <<aside, succeeded>>

\* file.readline() and shlex.split(line).  At the end of the file readline
\* returns '' and shlex.split gives [].
ReadLine ==
    /\ pc = "read"
    /\ \/ /\ ~Top.eof
          /\ left > 0
          /\ \E line \in PlainLines \cup
                         (IF Depth < MaxDepth THEN SourceLines ELSE {}) :
                cur' = line
          /\ frames' = SetTop([Top EXCEPT !.pos = @ + 1])
          /\ left' = left - 1
       \/ /\ cur' = <<>>
          /\ frames' = SetTop([Top EXCEPT !.eof = TRUE])
          /\ left' = left
    /\ pc' = "dispatch"
    /\ last' = NoLast
    /\ effects' = {}
    /\ UNCHANGED <<ctx, cmd, ended, aside, succeeded>>

\* The line read has no closing quotation: shlex.split raises ValueError.
ReadUnbalanced ==
    /\ pc = "read"
    /\ ~Top.eof
    /\ left > 0
    /\ left' = left - 1
    /\ RaiseOut
    /\ last' = NoLast
    /\ effects' = {}
    /\ UNCHANGED <<ctx, cmd>>

\* `not parsed or parsed[0].startswith('#')`
Skipped(parsed) ==
    IF parsed = <<>> THEN TRUE ELSE StartsWith(parsed[1], <<"#">>)

\* `if not parsed or parsed[0].startswith('#'): continue`
SkipLine ==
    /\ pc = "dispatch"
    /\ Skipped(cur)
    /\ pc' = "read"
    /\ cur' = <<>>
    /\ UNCHANGED <<frames, left, ctx, cmd, last, effects, ended, aside,
                   succeeded>>

Dispatching(name) ==
    /\ pc = "dispatch"
    /\ cur # <<>>
    /\ cur[1] = name

\* The `source` pseudo-command (lines 888-897).
Source ==
    /\ Dispatching(t_source)
    /\ \/ /\ Len(cur) = 1
          /\ frames' = frames
       \/ /\ Len(cur) > 1
          /\ \/ frames' = frames                 \* open() fails
             \/ frames' = Append(frames, [pos |-> 0, eof |-> FALSE])
    /\ pc' = "read"
    /\ cur' = <<>>
    /\ UNCHANGED <<left, ctx, cmd, last, effects, ended, aside, succeeded>>

\* ':: Unknown command' (lines 922-923).
Unknown ==
    /\ pc = "dispatch"
    /\ ~Skipped(cur)
    /\ cur[1] \notin Commands \cup {t_source}
    /\ pc' = "read"
    /\ cur' = <<>>
    /\ UNCHANGED <<frames, left, ctx, cmd, last, effects, ended, aside,
                   succeeded>>

(***************************************************************************)
(* Executing a registered command (lines 899-920).                         *)
(***************************************************************************)
\* context['cmd'] = self._set_cmd_vars(context, data)
NewCmd == _set_cmd_vars(variables, Tail(cur))

\* What the try statement around command.execute does with the exception
\* `exc` ("none": execute returned None or a dictionary, merged by the
\* action itself).
Executed(name, validated, exc) ==
    /\ cmd' = NewCmd
    /\ last' = [name |-> name, validated |-> validated, exc |-> exc]
    /\ pc' = IF StopsLoop(exc) THEN "cleanup" ELSE "read"
    /\ cur' = <<>>
    /\ succeeded' = IF name \in {t_capture, t_dump} /\ exc = "none"
                    THEN <<>> ELSE succeeded
    /\ UNCHANGED <<frames, left, ended, aside>>

DropLast(s) == IF s = <<>> THEN <<>> ELSE SubSeq(s, 1, Len(s) - 1)

SetVariable(name, value) ==
    [k \in DOMAIN variables \cup {name} |->
        IF k = name THEN value ELSE variables[k]]

\* SimulatorStartCommand.execute
Start ==
    /\ Dispatching(t_start)
    /\ LET v == Validate(t_start, NewCmd)
           launch == {<<"imunes -e", experiment>>}
           query == launch \cup {<<"sleep", <<"2">>>>, <<"himage -l", <<>>>>}
       IN  IF v # "ok"
           THEN /\ Executed(t_start, TRUE, v)
                /\ effects' = {}
                /\ UNCHANGED ctx
           ELSE \/ /\ Executed(t_start, TRUE, "CalledProcessError")
                   /\ effects' \in {launch, query}
                   /\ UNCHANGED ctx
                \/ /\ Executed(t_start, TRUE, "UnboundLocalError")
                   /\ effects' = query      \* no line starts with experiment
                   /\ UNCHANGED ctx
                \/ /\ Executed(t_start, TRUE, "none")
                   /\ effects' = query
                   /\ state' = started
                   /\ nodes' \in NodeLists
                   /\ UNCHANGED <<experiment, variables, capture, capture_data>>

\* `experiment = cmd[0] if cmd and len(cmd) else sim_experiment`
StopExperiment(c, sim_experiment) == IF c # <<>> THEN c[1] ELSE sim_experiment

\* A comparison that never finds the two names to be the same.
IdenticalNever(c, sim_experiment) == {FALSE}

\* `experiment is sim_experiment`: the same object when taken from the
\* context; two objects when the values differ; for a parameter equal in
\* value, whatever the interpreter's sharing of string objects gives.
Identical(c, sim_experiment) ==
    IF c = <<>> THEN {TRUE}
    ELSE IF c[1] # sim_experiment THEN {FALSE}
    ELSE BOOLEAN

\* The external calls of SimulatorStopCommand.execute, by whether
\* check_call raised.
StopCalls(c, sim_experiment, raised) ==
    {<<"imunes -b -e", StopExperiment(c, sim_experiment)>>}
        \cup (IF raised THEN {} ELSE {<<"sleep", <<"2">>>>})

\* A patch that moves the state to stopped and keeps the node list.
StopUpdateKeepsNodes == [state |-> stopped, nodes |-> nodes]

\* The context patch stop returns for the context's own experiment (the
\* entry 'network' is read by no command).
StopUpdate == [state |-> stopped, nodes |-> <<>>]

\* SimulatorStopCommand.execute
Stop ==
    /\ Dispatching(t_stop)
    /\ \/ /\ Executed(t_stop, FALSE, "CalledProcessError")
          /\ effects' = StopCalls(NewCmd, experiment, TRUE)
          /\ UNCHANGED ctx
       \/ /\ Executed(t_stop, FALSE, "none")
          /\ effects' = StopCalls(NewCmd, experiment, FALSE)
          /\ \E same \in Identical(NewCmd, experiment) :
                IF same
                THEN /\ state' = StopUpdate.state
                     /\ nodes' = StopUpdate.nodes
                     /\ UNCHANGED <<experiment, variables, capture, capture_data>>
                ELSE UNCHANGED ctx

\* SimulatorSleepCommand.execute: what int(context.get('cmd')[0]) and
\* time.sleep raise.
SleepRaises(c) ==
    IF c = <<>> THEN "TypeError"
    ELSE IF ~IntText(c[1]) THEN "ValueError"
    ELSE IF IntNegative(c[1]) THEN "IOError"
    ELSE "none"

Sleep ==
    /\ Dispatching(t_sleep)
    /\ Executed(t_sleep, FALSE, SleepRaises(NewCmd))
    /\ effects' = IF SleepRaises(NewCmd) = "none"
                  THEN {<<"sleep", NewCmd[1]>>} ELSE {}
    /\ UNCHANGED ctx

\* SimulatorExitCommand.execute
Exit ==
    /\ Dispatching(t_exit)
    /\ Executed(t_exit, FALSE, "ExitException")
    /\ effects' = {}
    /\ UNCHANGED ctx

\* SimulatorHelpCommand.execute
Help ==
    /\ Dispatching(t_help)
    /\ Executed(t_help, FALSE, "none")
    /\ effects' = {}
    /\ UNCHANGED ctx

\* SimulatorPrintCommand.execute
PrintCmd ==
    /\ Dispatching(t_print)
    /\ Executed(t_print, FALSE, "none")
    /\ effects' = {}
    /\ UNCHANGED ctx

\* SimulatorEnvCommand.execute
Env ==
    /\ Dispatching(t_env)
    /\ Executed(t_env, FALSE, "none")
    /\ effects' = {}
    /\ UNCHANGED ctx

\* SimulatorLocalCommand.execute
Local ==
    /\ Dispatching(t_local)
    /\ IF NewCmd = <<>>
       THEN /\ Executed(t_local, FALSE, "TypeError")
            /\ effects' = {}
       ELSE /\ \E exc \in {"none", "CalledProcessError"} :
                  Executed(t_local, FALSE, exc)
            /\ effects' = {<<"check_output", NewCmd[1]>>}
    /\ UNCHANGED ctx

\* SimulatorExperimentCommand.execute.  With a parameter it returns the
\* tuple (state, context_update); context.update(result), in the else
\* clause of the try statement, raises TypeError on it.
Experiment ==
    /\ Dispatching(t_experiment)
    /\ effects' = {}
    /\ UNCHANGED ctx
    /\ IF NewCmd = <<>>
       THEN Executed(t_experiment, FALSE, "none")
       ELSE /\ cmd' = NewCmd
            /\ last' = [name |-> t_experiment, validated |-> FALSE,
                        exc |-> "none"]
            /\ RaiseOut
            /\ UNCHANGED left

\* SimulatorExportCommand.execute
Export ==
    /\ Dispatching(t_export)
    /\ IF NewCmd = <<>>
       THEN /\ Executed(t_export, FALSE, "TypeError")
            /\ effects' = {}
            /\ UNCHANGED ctx
       ELSE IF Len(NewCmd) = 1
       THEN /\ Executed(t_export, FALSE, "IndexError")
            /\ effects' = {}
            /\ UNCHANGED ctx
       ELSE \/ /\ Executed(t_export, FALSE, "CalledProcessError")
               /\ effects' = {<<"check_output", NewCmd[2]>>}
               /\ UNCHANGED ctx
            \/ /\ Executed(t_export, FALSE, "none")
               /\ \E output \in Outputs :
                     /\ effects' = {<<"check_output", NewCmd[2]>>,
                                    <<"returned", output>>}
                     /\ variables' = SetVariable(NewCmd[1], DropLast(output))
               /\ UNCHANGED <<state, experiment, nodes, capture, capture_data>>

\* NodeCaptureOutputCommand.execute
Capture ==
    /\ Dispatching(t_capture)
    /\ effects' = {}
    /\ LET v == Validate(t_capture, NewCmd)
       IN  IF v # "ok"
           THEN /\ Executed(t_capture, TRUE, v)
                /\ UNCHANGED ctx
           ELSE /\ Executed(t_capture, TRUE, "none")
                /\ capture' = TRUE
                /\ capture_data' = <<>>
                /\ UNCHANGED <<state, experiment, nodes, variables>>

\* A patch that ends the capture and keeps the buffer.
DumpUpdateKeepsBuffer == [capture |-> FALSE, capture_data |-> capture_data]

\* The context patch dump returns.
DumpUpdate == [capture |-> FALSE, capture_data |-> <<>>]

\* out.write(line) for the first n entries of the buffer.
Written(n) == { <<"line", capture_data[i]>> : i \in 1..n }

\* NodeDumpOutputCommand.execute.  open, or any of the writes, can fail.
Dump ==
    /\ Dispatching(t_dump)
    /\ LET v == Validate(t_dump, NewCmd)
       IN  IF v # "ok"
           THEN /\ Executed(t_dump, TRUE, v)
                /\ effects' = {}
                /\ UNCHANGED ctx
           ELSE \/ /\ Executed(t_dump, TRUE, "CommandException")
                   /\ \/ effects' = {}
                      \/ \E n \in 0..(Len(capture_data) - 1) :
                            effects' = {<<"write", NewCmd[1]>>} \cup Written(n)
                   /\ UNCHANGED ctx
                \/ /\ Executed(t_dump, TRUE, "none")
                   /\ effects' = {<<"write", NewCmd[1]>>}
                                    \cup Written(Len(capture_data))
                   /\ capture' = DumpUpdate.capture
                   /\ capture_data' = DumpUpdate.capture_data
                   /\ UNCHANGED <<state, experiment, nodes, variables>>

(***************************************************************************)
(* Node commands.                                                          *)
(***************************************************************************)
\* node_submit_command's argument list, by `detached`.
Himage(name) == IF name = t_node_d THEN "himage -b" ELSE "himage"

\* What a node's process prints: its name and a newline.
NodeOutput(node) == node \o <<"\n">>

\* An executor that is left without waiting for its futures.
DrainedNoWait(p) == TRUE

\* Every future of the pool has finished: what leaving the with block waits
\* for (ThreadPoolExecutor.__exit__ is shutdown(wait=True)).
Drained(p) == \A i \in 1..Len(p.sel) : p.status[i] # "running"

\* NodeCommand.execute up to the for loop, for "node" and "node-d": the
\* validators, the selection, one future submitted for each selected node.
\* With no future submitted, formatting the message of the
\* CommandException reads the undefined name `node`: NameError.
NodeDispatch(name) ==
    /\ Dispatching(name)
    /\ effects' = {}
    /\ UNCHANGED ctx
    /\ LET v == Validate(name, NewCmd)
           sel == SelectNodes(nodes, NewCmd[1])
       IN  IF v # "ok"
           THEN Executed(name, TRUE, v)
           ELSE IF sel = <<>>
           THEN Executed(name, TRUE, "NameError")
           ELSE /\ pool' = [name |-> name, sel |-> sel,
                            status |-> [i \in 1..Len(sel) |-> "running"],
                            done |-> <<>>, seen |-> 0, raised |-> FALSE]
                /\ pc' = "pool"
                /\ cmd' = NewCmd
                /\ last' = [name |-> name, validated |-> TRUE, exc |-> "none"]
                /\ cur' = <<>>
                /\ UNCHANGED <<frames, left, ended, succeeded, probe>>

\* A worker thread's node_submit_command returns or raises
\* CalledProcessError: the future is finished.
TaskFinish ==
    /\ pc = "pool"
    /\ \E i \in 1..Len(pool.sel) :
          /\ pool.status[i] = "running"
          /\ effects' = effects \cup {<<Himage(pool.name), pool.sel[i]>>}
          /\ \E r \in {"ok", "failed"} :
                /\ pool' = [pool EXCEPT !.status[i] = r,
                                        !.done = Append(@, i)]
                /\ succeeded' =
                      IF capture /\ r = "ok"
                      THEN Append(succeeded, DropLast(NodeOutput(pool.sel[i])))
                      ELSE succeeded
    /\ UNCHANGED <<frames, pc, cur, left, ctx, cmd, last, ended, probe>>

\* One iteration of the for loop over as_completed (lines 379-388): the
\* next finished future's result is appended to capture_data, or its
\* CalledProcessError is turned into NodeExecException, which ends the loop.
Collect ==
    /\ pc = "pool"
    /\ ~pool.raised
    /\ pool.seen < Len(pool.done)
    /\ LET i == pool.done[pool.seen + 1]
       IN  IF pool.status[i] = "ok"
           THEN /\ pool' = [pool EXCEPT !.seen = @ + 1]
                /\ capture_data' =
                      IF capture
                      THEN Append(capture_data,
                                  DropLast(NodeOutput(pool.sel[i])))
                      ELSE capture_data
           ELSE /\ pool' = [pool EXCEPT !.seen = @ + 1, !.raised = TRUE]
                /\ capture_data' = capture_data
    /\ UNCHANGED <<frames, pc, cur, left, state, experiment, nodes, cmd,
                   variables, capture, last, effects, ended, succeeded, probe>>

\* Leaving the with block, by the end of the for loop or by its exception:
\* the executor is shut down, which waits for every future.  Then execute
\* returns None or NodeExecException reaches the try statement of the loop.
PoolExit ==
    /\ pc = "pool"
    /\ pool.raised \/ pool.seen = Len(pool.sel)
    /\ Drained(pool)
    /\ LET exc == IF pool.raised THEN "NodeExecException" ELSE "none"
       IN  /\ last' = [last EXCEPT !.exc = exc]
           /\ pc' = IF StopsLoop(exc) THEN "cleanup" ELSE "read"
    /\ pool' = NoPool
    /\ UNCHANGED <<frames, cur, left, ctx, cmd, effects, ended, succeeded,
                   probe>>

Node == NodeDispatch(t_node)

NodeD == NodeDispatch(t_node_d)

\* NodeIpAddr.execute: get_node_address on each selected node in turn; the
\* first to raise ends the command.  With no node selected `value` is
\* unbound at line 504.
IpAddr ==
    /\ Dispatching(t_ip_addr)
    /\ LET v == Validate(t_ip_addr, NewCmd)
           sel == SelectNodes(nodes, NewCmd[1])
           Calls(n) == { <<"himage ifconfig", sel[i]>> : i \in 1..n }
       IN  IF v # "ok"
           THEN /\ Executed(t_ip_addr, TRUE, v)
                /\ effects' = {}
                /\ UNCHANGED ctx
           ELSE IF sel = <<>>
           THEN /\ Executed(t_ip_addr, TRUE, "UnboundLocalError")
                /\ effects' = {}
                /\ UNCHANGED ctx
           ELSE \/ /\ \E n \in 1..Len(sel) : effects' = Calls(n)
                   /\ Executed(t_ip_addr, TRUE, "CalledProcessError")
                   /\ UNCHANGED ctx
                \/ /\ effects' = Calls(Len(sel))
                   /\ Executed(t_ip_addr, TRUE, "none")
                   /\ \E value \in Addresses :
                         variables' = SetVariable(NewCmd[2], value)
                   /\ UNCHANGED <<state, experiment, nodes, capture, capture_data>>

\* NodeCopyCommand.execute: `himage -v` then `docker cp` for each selected
\* node in turn; the first call to raise ends the command.
Copy ==
    /\ Dispatching(t_copy)
    /\ UNCHANGED ctx
    /\ LET v == Validate(t_copy, NewCmd)
           sel == SelectNodes(nodes, NewCmd[1])
           Calls(n, m) == { <<"himage -v", sel[i]>> : i \in 1..n }
                            \cup { <<"docker cp", sel[i]>> : i \in 1..m }
       IN  IF v # "ok"
           THEN /\ Executed(t_copy, TRUE, v)
                /\ effects' = {}
           ELSE \/ /\ sel # <<>>
                   /\ \E n \in 1..Len(sel), m \in 0..Len(sel) :
                         /\ m \in {n - 1, n}
                         /\ effects' = Calls(n, m)
                   /\ Executed(t_copy, TRUE, "CalledProcessError")
                \/ /\ effects' = Calls(Len(sel), Len(sel))
                   /\ Executed(t_copy, TRUE, "none")

(***************************************************************************)
(* Leaving the loop (lines 925-929).                                       *)
(***************************************************************************)
\* self._cleanup(context), after `working` was cleared: when the state is
\* started, stop's execute is called on the context as it is (with the
\* `cmd` of the last command) and what it returns is dropped.  Then _start
\* returns, or stop's exception leaves it.
Cleanup ==
    /\ pc = "cleanup"
    /\ effects' \in IF state = started
                    THEN {StopCalls(cmd, experiment, r) : r \in BOOLEAN}
                    ELSE {{}}
    /\ ended' = [how |-> IF last.exc = "ExitException" THEN "exit" ELSE "fatal",
                 cleanup |-> TRUE]
    /\ frames' = Pop
    /\ pc' = IF Depth > 1 THEN "read" ELSE "done"
    /\ UNCHANGED <<cur, left, ctx, cmd, last, aside, succeeded>>

Next ==
    \/ ReadLine
    \/ ReadUnbalanced
    \/ SkipLine
    \/ Source
    \/ Unknown
    \/ Start
    \/ Stop
    \/ Sleep
    \/ Exit
    \/ Help
    \/ PrintCmd
    \/ Env
    \/ Local
    \/ Experiment
    \/ Export
    \/ Capture
    \/ Dump
    \/ Node
    \/ NodeD
    \/ TaskFinish
    \/ Collect
    \/ PoolExit
    \/ IpAddr
    \/ Copy
    \/ Cleanup

Spec == Init /\ [][Next]_vars

(***************************************************************************)
(* The loop with one line read, in a context the lines before it left:     *)
(* the state from which a command's own step is checked over a wider       *)
(* range of tokens, variables and nodes than the scripts above produce.    *)
(***************************************************************************)
LoopAt(line, st, known, vs) ==
    /\ frames = <<[pos |-> 1, eof |-> FALSE]>>
    /\ pc = "dispatch"
    /\ cur = line
    /\ left = 0
    /\ state = st
    /\ experiment = SIM
    /\ nodes = known
    /\ cmd = <<>>
    /\ variables = vs
    /\ capture = FALSE
    /\ capture_data = <<>>
    /\ last = NoLast
    /\ effects = {}
    /\ ended = [how |-> "none", cleanup |-> FALSE]
    /\ pool = NoPool
    /\ succeeded = <<>>

AtLine(line, st, known, vs) ==
    /\ LoopAt(line, st, known, vs)
    /\ probe = NoProbe

\* Tokens of up to n pieces: references to X and Y, plain text, a brace.
SubstPieces ==
    {<<"%", "{", "X", "}">>, <<"%", "{", "Y", "}">>, <<"a">>, <<"}">>}

RECURSIVE PiecesUpTo(_)
PiecesUpTo(n) ==
    IF n = 0 THEN {<<>>}
    ELSE LET shorter == PiecesUpTo(n - 1)
         IN  shorter \cup { t \o q : t \in shorter, q \in SubstPieces }

\* The variables export and ip-addr can have set: a value is whatever an
\* external command printed, the text of a reference included.
SubstValues == {<<"1">>, <<"%", "{", "Y", "}">>}

SubstVariables ==
    UNION { [D -> SubstValues] : D \in SUBSET {<<"X">>, <<"Y">>} }

\* `print token`, about to be executed.
SubstInit ==
    \E token \in PiecesUpTo(MaxPieces), vs \in SubstVariables :
        AtLine(<<t_print, token>>, idle, <<>>, vs)

SubstSpec == SubstInit /\ [][PrintCmd]_vars

\* Node patterns of up to n characters.
PatternChars == {"a", "b", ",", "~", "*"}

RECURSIVE PatternsUpTo(_)
PatternsUpTo(n) ==
    IF n = 0 THEN {<<>>}
    ELSE LET shorter == PatternsUpTo(n - 1)
         IN  shorter \cup { Append(t, c) : t \in shorter, c \in PatternChars }

\* What `himage -l` can have listed: up to two nodes of distinct names.
NodeNames == {<<"a">>, <<"A">>, <<"b">>, <<"a", "b">>, <<"b", "a">>}

KnownNodes ==
    {<<>>} \cup { <<n>> : n \in NodeNames }
           \cup { nm \in NodeNames \X NodeNames : nm[1] # nm[2] }

\* `node pattern f`, about to be executed in an experiment that is started.
SelectInit ==
    \E pattern \in PatternsUpTo(MaxPattern), known \in KnownNodes :
        AtLine(<<t_node, pattern, tk_f>>, started, known, NoVariables)

SelectSpec == SelectInit /\ [][Node]_vars

\* The keys a context and a set of required entries are made of, where the
\* context validator is checked on its own.
ProbeKeys == {"state", "nodes", "experiment", "cmd"}

\* A ContextValidator built for some required entries, and a context.
ContextInit ==
    /\ LoopAt(<<>>, idle, <<>>, NoVariables)
    /\ probe \in [required : SUBSET ProbeKeys, context : SUBSET ProbeKeys,
                   result : {"none"}]

\* ContextValidator.validate(context)
ValidateContext ==
    /\ probe.result = "none"
    /\ probe' = [probe EXCEPT
                    !.result = ContextValidate(probe.required, probe.context)]
    /\ UNCHANGED <<frames, pc, cur, left, ctx, cmd, last, effects, ended,
                   pool, succeeded>>

ContextSpec == ContextInit /\ [][ValidateContext]_vars

\* The interpreter is one thread that keeps running: a step that can be
\* taken is taken.
FairSpec == InitLive /\ [][Next]_vars /\ WF_vars(Next)

(***************************************************************************)
(* The claims.                                                             *)
(***************************************************************************)
\* What a validator raises when it rejects a command.
ValidationErrors == {"ValueError", "CommandException"}

NodeCommands == {t_node, t_node_d, t_copy, t_ip_addr}

\* C1: every registered command's execute runs the context validator and
\* the parameter validator before its own behaviour, and when either
\* validator fails for the context and tokens at hand the command has no
\* side effect: no external call, no sleep, no write to the context or to
\* the variables.
C1_ValidationBeforeEffects ==
    [][\A name \in Commands :
          Dispatching(name) =>
             /\ last'.validated
             /\ Validate(name, NewCmd) # "ok" =>
                   (effects' = {} /\ ctx' = ctx)]_vars

\* C2: node, node-d, copy and ip-addr, given well-formed parameters while
\* the state is idle or stopped, are rejected by their context constraints
\* as a validation error, with no external call.
C2_NodeCommandsNeedStarted ==
    [][\A name \in NodeCommands :
          (/\ Dispatching(name)
           /\ state # started
           /\ ParamValidate(CmdRequired(name), NewCmd) = "ok") =>
             /\ last'.validated
             /\ last'.exc \in ValidationErrors
             /\ effects' = {}]_vars

\* C3: start, given a well-formed parameter while the state is stopped, is
\* rejected, launches no external simulator and leaves the state stopped.
C3_StartRejectedWhenStopped ==
    [][(/\ Dispatching(t_start)
        /\ state = stopped
        /\ ParamValidate(CmdRequired(t_start), NewCmd) = "ok") =>
          /\ last'.exc \in ValidationErrors
          /\ <<"imunes -e", experiment>> \notin effects'
          /\ state' = stopped]_vars

\* C4: stop with no parameter issued while the state is idle or stopped is
\* rejected, invokes no external teardown and leaves the state and the node
\* list unchanged.
C4_StopRejectedUnlessStarted ==
    [][(Dispatching(t_stop) /\ Len(cur) = 1 /\ state # started) =>
          /\ last'.exc \in ValidationErrors
          /\ effects' = {}
          /\ state' = state
          /\ nodes' = nodes]_vars

\* C5: a stop that executes in state started with no parameter, or with a
\* parameter equal in value to the context's experiment name, leaves
\* state = stopped and an empty node list.
C5_StopOfActiveExperiment ==
    [][(/\ Dispatching(t_stop)
        /\ state = started
        /\ IF NewCmd = <<>> THEN TRUE ELSE NewCmd[1] = experiment
        /\ last'.exc = "none") =>
          /\ state' = stopped
          /\ nodes' = <<>>]_vars

\* C6: whenever an activation of the read-eval loop has ended, by the exit
\* signal or by an error raised while a line was read, tokenized, executed
\* or its result merged, _cleanup was run for it.
C6_CleanupOnEveryTermination ==
    ended.how # "none" => ended.cleanup

\* C7: when the loop exits with state = started, the automatic stop tears
\* down the experiment named by the context's experiment entry, whatever
\* the last command line was.
C7_CleanupStopsActiveExperiment ==
    [][(pc = "cleanup" /\ state = started) =>
          <<"imunes -b -e", experiment>> \in effects']_vars

\* C8: once the input of an activation of the loop is exhausted, that
\* activation eventually ends and its cleanup runs.
C8_EndOfInputTerminates ==
    \A d \in 1..MaxDepth :
        (Depth = d /\ Top.eof) ~> (Depth < d /\ ended.cleanup)

\* C9: once a sourced script has been read to its end (every command of it
\* executed), its parent resumes: the sourced activation is gone and the
\* parent is about to read the line that follows the source line.
C9_SourceResumesParent ==
    \A d \in 2..MaxDepth :
        (Depth = d /\ Top.eof) ~> (Depth = d - 1 /\ pc = "read")

\* C10: a node or node-d dispatch that passes validation in state started
\* and whose pattern matches none of the known nodes ends in a command
\* error (reported, the loop continues) and calls the per-node primitive
\* zero times.
C10_ZeroMatchIsCommandError ==
    [][\A name \in {t_node, t_node_d} :
          (/\ Dispatching(name)
           /\ state = started
           /\ Validate(name, NewCmd) = "ok"
           /\ SelectNodes(nodes, NewCmd[1]) = <<>>) =>
             /\ last'.exc = "CommandException"
             /\ pc' = "read"
             /\ effects' = {}]_vars

\* C11: in a node dispatch where a node's external process fails, every
\* selected node's task has run to completion when the dispatch's error
\* reaches the loop: none is cancelled or skipped, whatever the order of
\* completion.
C11_AllTasksRunBeforeError ==
    [][(pc = "pool" /\ last'.exc = "NodeExecException") =>
          \A i \in 1..Len(pool.sel) :
             /\ pool.status[i] \in {"ok", "failed"}
             /\ <<Himage(pool.name), pool.sel[i]>> \in effects']_vars

\* C11, its case: a dispatch over two nodes has ended in the node-execution
\* error and the processes of both nodes ran.
C11_Witness ==
    /\ pc = "cleanup"
    /\ last.name = t_node
    /\ last.exc = "NodeExecException"
    /\ effects = {<<"himage", node_a1>>, <<"himage", node_b1>>}

\* C12: a node-execution error is not fatal: once it is reported the loop
\* goes on to read the next line.
C12_NodeErrorNotFatal ==
    [][(pc = "pool" /\ last'.exc = "NodeExecException") => pc' = "read"]_vars

\* A parameter has the shape its declared constraint asks for.
ShapeOk(kind, value) ==
    CASE kind = "Integer" -> IntText(value)
      [] kind = "StringImn" -> EndsWith(value, <<".", "i", "m", "n">>)
      [] OTHER -> TRUE

\* The parameters c violate the parameter preconditions `name` declares:
\* fewer than the minimum (none at all included), or one of the wrong shape.
ViolatesDeclared(name, c) ==
    LET r == CmdRequired(name)
    IN  /\ r.given
        /\ \/ Len(c) < r.min_len
           \/ \E k \in 1..Len(r.kinds) :
                 IF k <= Len(c) THEN ~ShapeOk(r.kinds[k], c[k]) ELSE FALSE

\* C13: a command line that violates the command's declared parameter
\* preconditions gives a validation error, the loop continues with the
\* next line, and no context entry is changed.
C13_ParamViolationIsValidationError ==
    [][\A name \in Commands :
          (Dispatching(name) /\ ViolatesDeclared(name, NewCmd)) =>
             /\ last'.exc \in ValidationErrors
             /\ pc' = "read"
             /\ ctx' = ctx]_vars

\* C14: after a capture command, what a dump writes is exactly one entry
\* for each per-node invocation that succeeded since the capture command,
\* over all the dispatches in between, in completion order.
C14_DumpHoldsEverySuccess ==
    [][(Dispatching(t_dump) /\ capture /\ last'.exc = "none") =>
          capture_data = succeeded]_vars

\* s holds an occurrence %{...}.
HasOccurrence(s) ==
    \E i \in 1..Len(s) :
        /\ OccursAt(s, <<"%", "{">>, i)
        /\ \E j \in (i + 2)..Len(s) : s[j] = "}"

\* s from index i on, with every %{name} whose name is in vs replaced by
\* vs[name] and every other one left as it is.
RECURSIVE SubstituteAll(_, _, _)
SubstituteAll(s, i, vs) ==
    IF i > Len(s) THEN <<>>
    ELSE IF OccursAt(s, <<"%", "{">>, i) /\ \E j \in (i + 2)..Len(s) : s[j] = "}"
         THEN LET j == CHOOSE j \in (i + 2)..Len(s) :
                           /\ s[j] = "}"
                           /\ \A k \in (i + 2)..(j - 1) : s[k] # "}"
                  name == SubSeq(s, i + 2, j - 1)
              IN  (IF name \in DOMAIN vs THEN vs[name] ELSE SubSeq(s, i, j))
                     \o SubstituteAll(s, j + 1, vs)
         ELSE <<s[i]>> \o SubstituteAll(s, i + 1, vs)

\* C15: substitution leaves a token with no %{...} occurrence unchanged,
\* replaces every %{name} whose name is in variables by the variable's
\* value, and leaves every %{name} whose name is not in variables in place.
C15_Substitution ==
    [][(Dispatching(t_print) /\ Len(cur) = 2) =>
          /\ ~HasOccurrence(cur[2]) => cmd'[1] = cur[2]
          /\ cmd'[1] = SubstituteAll(cur[2], 1, variables)]_vars

\* An output without its trailing newline, when it has one.
StripNewline(output) ==
    IF output # <<>> /\ output[Len(output)] = "\n"
    THEN DropLast(output) ELSE output

\* C16: export NAME cmd stores in variables[NAME] what the external
\* command printed with only its trailing newline stripped, whether or not
\* the output ends in a newline, and a token %{NAME} then resolves to just
\* that value.
C16_ExportRoundTrip ==
    [][(Dispatching(t_export) /\ last'.exc = "none") =>
          \A output \in Outputs :
             <<"returned", output>> \in effects' =>
                /\ variables'[NewCmd[1]] = StripNewline(output)
                /\ _set_cmd_vars(variables', <<_decorate_var(NewCmd[1])>>)
                      = <<StripNewline(output)>>]_vars

\* The pieces of s between its commas.
PiecesOf(s) ==
    { SubSeq(s, i, j) : <<i, j>> \in
        { ij \in (1..(Len(s) + 1)) \X (0..Len(s)) :
            /\ ij[1] <= ij[2] + 1
            /\ ij[1] = 1 \/ s[ij[1] - 1] = ","
            /\ ij[2] = Len(s) \/ s[ij[2] + 1] = ","
            /\ \A k \in ij[1]..ij[2] : s[k] # "," } }

HasPrefix(name, q) ==
    Len(q) <= Len(name) /\ SubSeq(name, 1, Len(q)) = q

\* The nodes a pattern stands for: all of them for `*`, those no piece is a
\* prefix of for `~a,b`, those some piece is a prefix of for `a,b`.
PatternNodes(known, pattern) ==
    LET Prefixed(name, s) == \E q \in PiecesOf(s) : HasPrefix(name, q)
        Excluded(name) == ~Prefixed(name, Tail(pattern))
        Included(name) == Prefixed(name, pattern)
    IN  IF pattern = <<"*">> THEN known
        ELSE IF pattern # <<>> /\ pattern[1] = "~"
             THEN SelectSeq(known, Excluded)
             ELSE SelectSeq(known, Included)

C18_Lifecycle ==
    [][/\ (Dispatching(t_start) /\ state = idle /\ last'.exc = "none") =>
             state' = started
       /\ (pc = "pool" \/ Dispatching(t_node) \/ Dispatching(t_node_d)) =>
             (state' = state /\ nodes' = nodes)
       /\ (/\ Dispatching(t_stop) /\ Len(cur) = 1
           /\ state = started /\ last'.exc = "none") =>
             state' = stopped]_vars

\* C18, its case: after capture, start, a node dispatch whose output was
\* captured and a stop with no parameter, the state is stopped.
C18_Witness ==
    /\ Depth = 1
    /\ Top.pos = 4
    /\ last = [name |-> t_stop, validated |-> FALSE, exc |-> "none"]
    /\ cmd = <<>>
    /\ capture_data # <<>>
    /\ state = stopped

\* C19: experiment with a parameter sets the context's experiment name to
\* the parameter and the loop goes on with the next line; with no
\* parameter it leaves the context unchanged.
C19_ExperimentCommand ==
    [][Dispatching(t_experiment) =>
          IF NewCmd # <<>>
          THEN /\ experiment' = NewCmd[1]
               /\ pc' = "read"
               /\ frames' = frames
          ELSE ctx' = ctx]_vars

\* C20, as the claim states it: the required-context validator passes if
\* and only if every required key is present in the context.
C20_PassesIffPresent ==
    probe.result # "none" =>
       (probe.result = "ok" <=> probe.required \subseteq probe.context)

\* C20, amended: the validator passes if and only if the context is not
\* empty and every required key is present in it, whatever other keys it
\* holds; an empty context fails even when no key is required.
C20_PassesIffPresentAndNotEmpty ==
    probe.result # "none" =>
       (probe.result = "ok" <=>
           (probe.context # {} /\ probe.required \subseteq probe.context))

\* C20, its case: a context with keys beyond the two required ones passed.
C20_Witness ==
    /\ probe.result = "ok"
    /\ probe.required = {"state", "nodes"}
    /\ probe.context = {"state", "nodes", "cmd"}

\* C21: once an exit command has been executed and its activation has
\* ended, at whatever depth of sourced scripts, cleanup has run and no
\* further line of any script is executed.
C21_ExitStopsEverything ==
    [][ended.how = "exit" =>
          /\ ended.cleanup
          /\ ~(pc = "dispatch" /\ ~Skipped(cur))]_vars

\* C22: when a node or node-d execute call returns or raises, no task of
\* the dispatch is pending or running: the pool is drained before control
\* is back in the read-eval loop, and a call that ends before any task was
\* submitted leaves none behind.
C22_PoolDrainedOnReturn ==
    [][/\ (pc = "pool" /\ pc' # "pool") =>
             /\ \A i \in 1..Len(pool.sel) : pool.status[i] # "running"
             /\ Len(pool.done) = Len(pool.sel)
       /\ ((Dispatching(t_node) \/ Dispatching(t_node_d)) /\ pc' # "pool") =>
             pool' = NoPool]_vars

\* C22, its case: a dispatch over two nodes has returned to the loop and
\* the processes of both nodes were run.
C22_Witness ==
    /\ pc = "read"
    /\ pool = NoPool
    /\ last = [name |-> t_node, validated |-> TRUE, exc |-> "none"]
    /\ effects = {<<"himage", node_a1>>, <<"himage", node_b1>>}

\* C23: a dump that succeeds writes the buffered entries and leaves the
\* buffer empty; one that fails on the file ends as a command error: the
\* loop continues and the capture flag and the buffer are as before.
C23_DumpOutcome ==
    [][(Dispatching(t_dump) /\ Validate(t_dump, NewCmd) = "ok") =>
          \/ /\ last'.exc = "none"
             /\ { e \in effects' : e[1] = "line" }
                   = { <<"line", capture_data[i]>> : i \in 1..Len(capture_data) }
             /\ capture_data' = <<>>
          \/ /\ last'.exc = "CommandException"
             /\ pc' = "read"
             /\ capture' = capture
             /\ capture_data' = capture_data]_vars

\* C23, its case: a dump has written a captured entry and the buffer is
\* empty.
C23_Witness ==
    /\ last = [name |-> t_dump, validated |-> TRUE, exc |-> "none"]
    /\ <<"line", node_a1>> \in effects
    /\ capture_data = <<>>

\* C24: when cleanup's automatic stop has run (its teardown call and its
\* sleep done), at the exit of any loop level, the context afterwards has
\* state = stopped and an empty node list.
C24_CleanupLeavesStopped ==
    [][(pc = "cleanup" /\ state = started /\ <<"sleep", <<"2">>>> \in effects') =>
          (state' = stopped /\ nodes' = <<>>)]_vars

\* C25: in every reachable state a node list that is not empty implies
\* state = started.
C25_NodesImplyStarted ==
    nodes # <<>> => state = started

\* C25, its case: a stop of another experiment has returned and left the
\* nodes of the started experiment in place.
C25_Witness ==
    /\ last = [name |-> t_stop, validated |-> FALSE, exc |-> "none"]
    /\ nodes # <<>>
    /\ state = started

====
